---------------------------- MODULE Spec2Model ----------------------------
(***************************************************************************)
(* A model of ripyl/decode.py: the edge extractors find_edges and          *)
(* find_differential_edges, the glitch filter remove_short_diff_0s, the    *)
(* cursors EdgeSequence and MultiEdgeSequence, and the estimators          *)
(* find_hist_peaks, find_bot_top_hist_peaks, find_logic_levels and         *)
(* find_symbol_rate.                                                       *)
(*                                                                         *)
(* Times are counted in half time units, so that every input time is an    *)
(* even number and the midpoint (a + b) / 2.0 of two input times is exact. *)
(* Sample values and logic levels are counted in tenths (logic (0, 1) is   *)
(* <<0, 10>>) and the hysteresis in tenths as well (0.4 is 4); the         *)
(* hysteresis boundaries are kept scaled so that every comparison of the   *)
(* code is an exact comparison of integers.                                *)
(***************************************************************************)
EXTENDS Integers, Sequences, FiniteSets

VARIABLES
    \* ---- the generators (find_edges, find_differential_edges,
    \*      remove_short_diff_0s): one call of one of them
    fn,               \* which generator function was called
    pc,               \* "start": not pulled yet, "run": suspended in its loop,
                      \* "returned": ran off its end, "raised": ended by an exception
    exc,              \* the exception that ended it ("" when none)
    logic,            \* argument logic = (low, high)
    hysteresis,       \* argument hysteresis, in tenths
    samples,          \* the part of the input iterable consumed so far
    out,              \* the elements yielded so far
    state,            \* local `state` of the edge extractors
    prev_stable,      \* local `prev_stable` (Unassigned until first assigned)
    min_diff_0_time,  \* argument of remove_short_diff_0s
    diff_0_start,     \* locals of remove_short_diff_0s
    merged_edge,
    edge,
    prev_edge,
    \* ---- one EdgeSequence object and the calls made on it
    edges_in,         \* the argument `edges`: the whole edge stream handed over
    start_time,       \* the argument start_time (None when not given)
    es,               \* the EdgeSequence object (NoObject before construction)
    es_pc,            \* "new", "ready", or "raised" (the constructor raised)
    es_call,          \* the last method called on it
    es_ret,           \* what that call returned
    \* ---- one MultiEdgeSequence object and the calls made on it
    edge_sets,        \* the argument edge_sets, one stream per channel
    m_start_time,     \* the argument start_time (None when not given)
    sequences,        \* self.sequences, one EdgeSequence per channel
    m_pc,             \* "new", "ready", or "raised"
    m_call,           \* the last method called on it
    m_arg,            \* the channel_name that call was given (NoName: none)
    m_ret,            \* what that call returned
    m_exc,            \* the exception that call raised ("" when none)
    \* ---- one call of find_bot_top_hist_peaks, from the histogram on
    hist,             \* the histogram: bin counts
    bin_centers,      \* the value at the centre of each bin
    h_pc,             \* "hist": histogram made, "scanned": find_hist_peaks
                      \* is past its scan, "peaks": find_hist_peaks returned,
                      \* "returned", "raised"
    peaks,            \* the list `peaks` of find_hist_peaks, then its result
    h_ret,            \* what find_bot_top_hist_peaks returned
    h_exc,            \* the exception that ended the call ("" when none)
    \* ---- one call of find_logic_levels
    max_samples,      \* argument max_samples
    buf_size,         \* argument buf_size
    ll_samples,       \* the sample values pulled from the input so far
    buf,              \* local `buf`, a deque of at most buf_size values
    os,               \* the values accumulated in the OnlineStats `os`
    os_init,          \* local `os_init`
    ll_state,         \* local `state`
    sc,               \* local `sc`
    buf_remaining,    \* local `buf_remaining` (Unassigned until assigned)
    ll_pc,            \* "loop", "done": the loop is left, "returned", "raised"
    ll_called,        \* whether find_bot_top_hist_peaks was called
    ll_ret,           \* what find_logic_levels returned
    \* ---- one call of find_symbol_rate
    rate_edges,       \* the times of the argument `edges`
    sample_rate,      \* argument sample_rate
    auto_span_limit,  \* argument auto_span_limit
    max_span_limit,   \* argument max_span_limit (None: none), then the
                      \* local: a limit found from the spans is kept as
                      \* <<numerator, denominator>>
    spans,            \* local `spans`
    hps,              \* local `hps`, the harmonic product spectrum
    r_pc,             \* "call", "spans", "filtered", "returned", "raised"
    r_ret,            \* what find_symbol_rate returned
    r_exc             \* the exception that ended the call ("" when none)

genVars == <<fn, pc, exc, logic, hysteresis, samples, out, state, prev_stable,
             min_diff_0_time, diff_0_start, merged_edge, edge, prev_edge>>

cursorVars == <<edges_in, start_time, es, es_pc, es_call, es_ret>>

multiVars == <<edge_sets, m_start_time, sequences, m_pc, m_call, m_arg, m_ret,
               m_exc>>

histVars == <<hist, bin_centers, h_pc, peaks, h_ret, h_exc>>

levelVars == <<max_samples, buf_size, ll_samples, buf, os, os_init, ll_state,
               sc, buf_remaining, ll_pc, ll_called, ll_ret>>

rateVars == <<rate_edges, sample_rate, auto_span_limit, max_span_limit, spans,
              hps, r_pc, r_ret, r_exc>>

vars == <<genVars, cursorVars, multiVars, histVars, levelVars, rateVars>>

notGen == <<cursorVars, multiVars, histVars, levelVars, rateVars>>
notCursor == <<genVars, multiVars, histVars, levelVars, rateVars>>
notMulti == <<genVars, cursorVars, histVars, levelVars, rateVars>>
notHist == <<genVars, cursorVars, multiVars, levelVars, rateVars>>
notLevel == <<genVars, cursorVars, multiVars, histVars, rateVars>>
notRate == <<genVars, cursorVars, multiVars, histVars, levelVars>>

\* ------------------------------------------------------------------ bounds
MaxSamples == 5       \* samples fed to an edge extractor
MaxEdges == 5         \* edges fed to the glitch filter

\* Sample values fed to find_edges, logic = (0, 1): with hysteresis 0.4 the
\* boundaries are 0.3 and 0.7, with 0.1 they are 0.45 and 0.55.
SingleSampleVals == {0, 3, 5, 6, 7, 10}
\* Sample values fed to find_differential_edges, logic = (-1, 1): with
\* hysteresis 0.4 the boundaries are 0.7, 0.3, -0.3, -0.7.
DiffSampleVals == {-10, -5, 0, 4, 5, 6, 10}
Hystereses == {1, 4}
SingleLogic == <<0, 10>>
DiffLogic == <<-10, 10>>

None == -1            \* Python's None, where the code compares against it
Unassigned == -2      \* a local that no statement has assigned yet
NoEdge == <<None, None>>

\* ------------------------------------------------------------ find_edges
ZONE_1_L1 == 1
ZONE_2_T == 2
ZONE_3_L0 == 3
ES_START == 0

\* thresh, hyst_top and hyst_bot of find_edges, times 2 and times 20
thresh2(lg) == lg[2] + lg[1]
hyst_top20(lg, h) == (lg[2] - lg[1]) * (10 + h) + 20 * lg[1]
hyst_bot20(lg, h) == (lg[2] - lg[1]) * (10 - h) + 20 * lg[1]

get_sample_zone(lg, h, sample) ==
    IF 20 * sample > hyst_top20(lg, h) THEN ZONE_1_L1
    ELSE IF 20 * sample > hyst_bot20(lg, h) THEN ZONE_2_T
    ELSE ZONE_3_L0

is_stable_zone(zone) == zone = ZONE_1_L1 \/ zone = ZONE_3_L0

zone_to_logic_state(zone) ==
    IF zone = ZONE_1_L1 THEN 1
    ELSE IF zone = ZONE_3_L0 THEN 0
    ELSE 999

initial_state(lg, t0, initial_sample) ==
    <<t0, IF 2 * initial_sample > thresh2(lg) THEN 1 ELSE 0>>

\* A bug: every exit from the hysteresis band yields an edge.
transition_exit_always(zone, ps) == TRUE

\* The rule on leaving the hysteresis band: "This wasn't just noise".
transition_exit_yields(zone, ps) == zone # ps

\* A bug: the START state is left on any sample, also on one in the
\* transition zone.
find_edges_body_enters_band(st, ps, zone, t) ==
    IF st = ES_START THEN
        [state |-> zone, prev_stable |-> ps, yields |-> <<>>,
         unbound |-> FALSE]
    ELSE IF st = ZONE_1_L1 \/ st = ZONE_3_L0 THEN
        IF is_stable_zone(zone) THEN
            IF zone # st THEN
                [state |-> zone, prev_stable |-> ps,
                 yields |-> <<(<<t, zone_to_logic_state(zone)>>)>>,
                 unbound |-> FALSE]
            ELSE
                [state |-> st, prev_stable |-> ps, yields |-> <<>>,
                 unbound |-> FALSE]
        ELSE
            [state |-> zone, prev_stable |-> st, yields |-> <<>>,
             unbound |-> FALSE]
    ELSE IF st = ZONE_2_T THEN
        IF is_stable_zone(zone) THEN
            IF ps = Unassigned THEN
                [state |-> st, prev_stable |-> ps, yields |-> <<>>,
                 unbound |-> TRUE]
            ELSE
                [state |-> zone, prev_stable |-> ps,
                 yields |-> IF transition_exit_yields(zone, ps)
                            THEN <<(<<t, zone_to_logic_state(zone)>>)>>
                            ELSE <<>>,
                 unbound |-> FALSE]
        ELSE
            [state |-> zone, prev_stable |-> ps, yields |-> <<>>,
             unbound |-> FALSE]
    ELSE
        [state |-> st, prev_stable |-> ps, yields |-> <<>>, unbound |-> FALSE]

\* One iteration of the for loop of find_edges on a sample in `zone` at time t:
\* the new state and prev_stable, the elements yielded, and whether it read
\* prev_stable before any assignment (Python raises UnboundLocalError).
find_edges_body(st, ps, zone, t) ==
    IF st = ES_START THEN
        [state |-> IF is_stable_zone(zone) THEN zone ELSE st,
         prev_stable |-> ps, yields |-> <<>>, unbound |-> FALSE]
    ELSE IF st = ZONE_1_L1 \/ st = ZONE_3_L0 THEN
        IF is_stable_zone(zone) THEN
            IF zone # st THEN
                [state |-> zone, prev_stable |-> ps,
                 yields |-> <<(<<t, zone_to_logic_state(zone)>>)>>,
                 unbound |-> FALSE]
            ELSE
                [state |-> st, prev_stable |-> ps, yields |-> <<>>,
                 unbound |-> FALSE]
        ELSE
            [state |-> zone, prev_stable |-> st, yields |-> <<>>,
             unbound |-> FALSE]
    ELSE IF st = ZONE_2_T THEN
        IF is_stable_zone(zone) THEN
            IF ps = Unassigned THEN
                [state |-> st, prev_stable |-> ps, yields |-> <<>>,
                 unbound |-> TRUE]
            ELSE
                [state |-> zone, prev_stable |-> ps,
                 yields |-> IF transition_exit_yields(zone, ps)
                            THEN <<(<<t, zone_to_logic_state(zone)>>)>>
                            ELSE <<>>,
                 unbound |-> FALSE]
        ELSE
            [state |-> zone, prev_stable |-> ps, yields |-> <<>>,
             unbound |-> FALSE]
    ELSE
        [state |-> st, prev_stable |-> ps, yields |-> <<>>, unbound |-> FALSE]

\* The time of the next sample: samples are taken at a fixed period.
NextSampleTime == 2 * Len(samples)

filterIdle ==
    /\ min_diff_0_time = 0
    /\ diff_0_start = None
    /\ merged_edge = FALSE
    /\ edge = NoEdge
    /\ prev_edge = NoEdge

filterVars == <<min_diff_0_time, diff_0_start, merged_edge, edge, prev_edge>>

\* find_edges(samples, logic, hysteresis) is called; nothing runs yet.
find_edges_call ==
    /\ fn = "find_edges"
    /\ logic = SingleLogic
    /\ hysteresis \in Hystereses
    /\ pc = "start" /\ exc = ""
    /\ samples = <<>> /\ out = <<>>
    /\ state = ES_START /\ prev_stable = Unassigned
    /\ filterIdle

\* First pull: `next(samples)` and the first yield, or StreamError.
find_edges_first ==
    /\ fn = "find_edges" /\ pc = "start"
    /\ \/ /\ pc' = "raised" /\ exc' = "StreamError"
          /\ UNCHANGED <<samples, out>>
       \/ \E initial_sample \in SingleSampleVals :
            /\ samples' = <<(<<NextSampleTime, initial_sample>>)>>
            /\ out' = <<initial_state(logic, NextSampleTime, initial_sample)>>
            /\ pc' = "run" /\ exc' = ""
    /\ UNCHANGED <<fn, logic, hysteresis, state, prev_stable, filterVars>>
    /\ UNCHANGED notGen

\* One iteration of `for t, sample in samples`.
find_edges_step ==
    /\ fn = "find_edges" /\ pc = "run"
    /\ Len(samples) < MaxSamples
    /\ \E sample \in SingleSampleVals :
         LET t == NextSampleTime
             r == find_edges_body(state, prev_stable,
                                  get_sample_zone(logic, hysteresis, sample), t)
         IN  /\ samples' = Append(samples, <<t, sample>>)
             /\ state' = r.state
             /\ prev_stable' = r.prev_stable
             /\ out' = out \o r.yields
             /\ pc' = IF r.unbound THEN "raised" ELSE "run"
             /\ exc' = IF r.unbound THEN "UnboundLocalError" ELSE ""
    /\ UNCHANGED <<fn, logic, hysteresis, filterVars>>
    /\ UNCHANGED notGen

\* The input is exhausted: the for loop ends and the generator returns.
find_edges_end ==
    /\ fn = "find_edges" /\ pc = "run"
    /\ pc' = "returned"
    /\ UNCHANGED <<fn, exc, logic, hysteresis, samples, out, state,
                   prev_stable, filterVars>>
    /\ UNCHANGED notGen

\* ------------------------------------------------- find_differential_edges
ZONE_1_DP == 1
ZONE_2_HT == 2
ZONE_3_D0 == 3
ZONE_4_LT == 4
ZONE_5_DM == 5

\* thresh_high and thresh_low times 4; the four hysteresis boundaries times 40
thresh_high4(lg) == 3 * lg[2] + lg[1]
thresh_low4(lg) == lg[2] + 3 * lg[1]
hyst_high_top40(lg, h) == (lg[2] - lg[1]) * (10 + h) + 20 * (lg[2] + lg[1])
hyst_high_bot40(lg, h) == (lg[2] - lg[1]) * (10 - h) + 20 * (lg[2] + lg[1])
hyst_low_top40(lg, h) == (lg[2] - lg[1]) * (10 + h) + 40 * lg[1]
hyst_low_bot40(lg, h) == (lg[2] - lg[1]) * (10 - h) + 40 * lg[1]

diff_get_sample_zone(lg, h, sample) ==
    IF 40 * sample > hyst_high_top40(lg, h) THEN ZONE_1_DP
    ELSE IF 40 * sample > hyst_high_bot40(lg, h) THEN ZONE_2_HT
    ELSE IF 40 * sample > hyst_low_top40(lg, h) THEN ZONE_3_D0
    ELSE IF 40 * sample > hyst_low_bot40(lg, h) THEN ZONE_4_LT
    ELSE ZONE_5_DM

diff_is_stable_zone(zone) ==
    zone = ZONE_1_DP \/ zone = ZONE_3_D0 \/ zone = ZONE_5_DM

diff_zone_to_logic_state(zone) ==
    IF zone = ZONE_1_DP THEN 1
    ELSE IF zone = ZONE_3_D0 THEN 0
    ELSE IF zone = ZONE_5_DM THEN -1
    ELSE 999

diff_initial_state(lg, t0, initial_sample) ==
    <<t0,
      IF 4 * initial_sample > thresh_high4(lg) THEN 1
      ELSE IF 4 * initial_sample > thresh_low4(lg) THEN 0
      ELSE -1>>

\* A bug: every exit from the transition band into a stable zone yields.
diff_transition_exit_always(zone, ps) == TRUE

diff_transition_exit_yields(zone, ps) == zone # ps

\* One iteration of the for loop of find_differential_edges.
find_differential_edges_body(st, ps, zone, t) ==
    IF st = ES_START THEN
        [state |-> IF diff_is_stable_zone(zone) THEN zone ELSE st,
         prev_stable |-> ps, yields |-> <<>>, unbound |-> FALSE]
    ELSE IF st = ZONE_1_DP \/ st = ZONE_3_D0 \/ st = ZONE_5_DM THEN
        IF diff_is_stable_zone(zone) THEN
            IF zone # st THEN
                [state |-> zone, prev_stable |-> ps,
                 yields |-> <<(<<t, diff_zone_to_logic_state(zone)>>)>>,
                 unbound |-> FALSE]
            ELSE
                [state |-> st, prev_stable |-> ps, yields |-> <<>>,
                 unbound |-> FALSE]
        ELSE
            [state |-> zone, prev_stable |-> st, yields |-> <<>>,
             unbound |-> FALSE]
    ELSE IF st = ZONE_2_HT \/ st = ZONE_4_LT THEN
        IF diff_is_stable_zone(zone) THEN
            IF ps = Unassigned THEN
                [state |-> st, prev_stable |-> ps, yields |-> <<>>,
                 unbound |-> TRUE]
            ELSE
                [state |-> zone, prev_stable |-> ps,
                 yields |-> IF diff_transition_exit_yields(zone, ps)
                            THEN <<(<<t, diff_zone_to_logic_state(zone)>>)>>
                            ELSE <<>>,
                 unbound |-> FALSE]
        ELSE
            [state |-> zone, prev_stable |-> ps, yields |-> <<>>,
             unbound |-> FALSE]
    ELSE
        [state |-> st, prev_stable |-> ps, yields |-> <<>>, unbound |-> FALSE]

\* find_differential_edges(samples, logic, hysteresis) is called.
find_differential_edges_call ==
    /\ fn = "find_differential_edges"
    /\ logic = DiffLogic
    /\ hysteresis \in Hystereses
    /\ pc = "start" /\ exc = ""
    /\ samples = <<>> /\ out = <<>>
    /\ state = ES_START /\ prev_stable = Unassigned
    /\ filterIdle

find_differential_edges_first ==
    /\ fn = "find_differential_edges" /\ pc = "start"
    /\ \/ /\ pc' = "raised" /\ exc' = "StreamError"
          /\ UNCHANGED <<samples, out>>
       \/ \E initial_sample \in DiffSampleVals :
            /\ samples' = <<(<<NextSampleTime, initial_sample>>)>>
            /\ out' = <<diff_initial_state(logic, NextSampleTime, initial_sample)>>
            /\ pc' = "run" /\ exc' = ""
    /\ UNCHANGED <<fn, logic, hysteresis, state, prev_stable, filterVars>>
    /\ UNCHANGED notGen

find_differential_edges_step ==
    /\ fn = "find_differential_edges" /\ pc = "run"
    /\ Len(samples) < MaxSamples
    /\ \E sample \in DiffSampleVals :
         LET t == NextSampleTime
             r == find_differential_edges_body(state, prev_stable,
                      diff_get_sample_zone(logic, hysteresis, sample), t)
         IN  /\ samples' = Append(samples, <<t, sample>>)
             /\ state' = r.state
             /\ prev_stable' = r.prev_stable
             /\ out' = out \o r.yields
             /\ pc' = IF r.unbound THEN "raised" ELSE "run"
             /\ exc' = IF r.unbound THEN "UnboundLocalError" ELSE ""
    /\ UNCHANGED <<fn, logic, hysteresis, filterVars>>
    /\ UNCHANGED notGen

find_differential_edges_end ==
    /\ fn = "find_differential_edges" /\ pc = "run"
    /\ pc' = "returned"
    /\ UNCHANGED <<fn, exc, logic, hysteresis, samples, out, state,
                   prev_stable, filterVars>>
    /\ UNCHANGED notGen

\* --------------------------------------------------- remove_short_diff_0s
DiffStates == {-1, 0, 1}
EdgeGaps == {2, 4}            \* time from one input edge to the next
MinDiff0Times == {3, 4, 5}

\* A bug: the sum of the two times, not divided by two.
Midpoint_undivided(a, b) == a + b

\* (diff_0_start + diff_0_end) / 2.0
Midpoint(a, b) == (a + b) \div 2

\* A bug: a differential 0 of exactly the threshold is merged away too.
is_short_diff_0_inclusive(diff_0_len, min_time) == diff_0_len <= min_time

\* Whether a differential 0 of length diff_0_len is merged away.
is_short_diff_0(diff_0_len, min_time) == diff_0_len < min_time

\* The body of `while True` after `edge = next(diff_edges)` succeeded, from
\* `if edge[1] != 0` to the last `if not merged_edge`: the new locals and what
\* the iteration yields. pe is prev_edge (the edge before e), e the new edge.
remove_short_diff_0s_body(pe, e, d0s, me, min_time) ==
    LET me1 == IF e[2] # 0 THEN FALSE ELSE me
        pending == d0s # None
        short == pending /\ is_short_diff_0(e[1] - d0s, min_time)
        pe2 == IF short THEN <<Midpoint(d0s, e[1]), e[2]>> ELSE pe
        me2 == IF pending THEN short ELSE me1
        y1 == IF short THEN <<pe2>> ELSE <<>>
        d0s3 == IF e[2] = 0 THEN e[1] ELSE None
        y2 == IF ~me2 THEN <<pe2>> ELSE <<>>
    IN  [prev_edge |-> pe2, merged_edge |-> me2, diff_0_start |-> d0s3,
         yields |-> y1 \o y2]

\* remove_short_diff_0s(diff_edges, min_diff_0_time) is called. The input
\* edges consumed so far are kept in `samples`.
remove_short_diff_0s_call ==
    /\ fn = "remove_short_diff_0s"
    /\ min_diff_0_time \in MinDiff0Times
    /\ pc = "start" /\ exc = ""
    /\ samples = <<>> /\ out = <<>>
    /\ diff_0_start = None /\ merged_edge = FALSE
    /\ edge = NoEdge /\ prev_edge = NoEdge
    /\ logic = DiffLogic /\ hysteresis = 0
    /\ state = ES_START /\ prev_stable = Unassigned

extractorVars == <<logic, hysteresis, state, prev_stable>>

\* "Get the first edge", or StreamError.
remove_short_diff_0s_first ==
    /\ fn = "remove_short_diff_0s" /\ pc = "start"
    /\ \/ /\ pc' = "raised" /\ exc' = "StreamError"
          /\ UNCHANGED <<samples, edge>>
       \/ \E s \in DiffStates :
            /\ edge' = <<0, s>>
            /\ samples' = <<(<<0, s>>)>>
            /\ pc' = "run" /\ exc' = ""
    /\ UNCHANGED <<fn, out, min_diff_0_time, diff_0_start, merged_edge,
                   prev_edge, extractorVars>>
    /\ UNCHANGED notGen

\* One iteration of `while True` in which next(diff_edges) gives an edge.
remove_short_diff_0s_step ==
    /\ fn = "remove_short_diff_0s" /\ pc = "run"
    /\ Len(samples) < MaxEdges
    /\ \E gap \in EdgeGaps, s \in DiffStates :
         LET e == <<edge[1] + gap, s>>
             r == remove_short_diff_0s_body(edge, e, diff_0_start, merged_edge,
                                            min_diff_0_time)
         IN  /\ samples' = Append(samples, e)
             /\ edge' = e
             /\ prev_edge' = r.prev_edge
             /\ merged_edge' = r.merged_edge
             /\ diff_0_start' = r.diff_0_start
             /\ out' = out \o r.yields
    /\ UNCHANGED <<fn, pc, exc, min_diff_0_time, extractorVars>>
    /\ UNCHANGED notGen

\* next(diff_edges) raises StopIteration: break, "yield prev_edge # last edge".
remove_short_diff_0s_end ==
    /\ fn = "remove_short_diff_0s" /\ pc = "run"
    /\ prev_edge' = edge
    /\ out' = Append(out, edge)
    /\ pc' = "returned"
    /\ UNCHANGED <<fn, exc, samples, min_diff_0_time, diff_0_start,
                   merged_edge, edge, extractorVars>>
    /\ UNCHANGED notGen

\* ------------------------------------------------------------ EdgeSequence
\* An EdgeSequence object: its attributes. `edges` is the iterator: what the
\* stream still holds; next(self.edges) takes its head and raises
\* StopIteration when it is empty.
NoObject ==
    [edges |-> <<>>, time_step |-> 0, it_end |-> FALSE,
     cur_states |-> NoEdge, next_states |-> NoEdge, cur_time |-> None]

\* EdgeSequence.__init__ up to `self.cur_time = self.cur_states[0]`, for a
\* stream of at least two edges.
EdgeSequence_fields(edges, time_step) ==
    [edges |-> Tail(Tail(edges)), time_step |-> time_step, it_end |-> FALSE,
     cur_states |-> edges[1], next_states |-> edges[2],
     cur_time |-> edges[1][1]]

\* The loop condition of advance.
advance_passes(s) == s.cur_time > s.next_states[1]

\* A bug: the end is flagged whenever the cursor passes an edge, not only
\* when the stream has run out.
RECURSIVE advance_loop_flags_early(_)
advance_loop_flags_early(s) ==
    IF advance_passes(s) THEN
        IF s.edges = <<>> THEN
            [s EXCEPT !.cur_states = s.next_states, !.it_end = TRUE]
        ELSE
            advance_loop_flags_early([s EXCEPT !.cur_states = s.next_states,
                                               !.next_states = Head(s.edges),
                                               !.edges = Tail(s.edges),
                                               !.it_end = TRUE])
    ELSE s

\* A bug: `if` in the place of `while`: advance moves over one edge at most.
advance_loop_once(s) ==
    IF advance_passes(s) THEN
        IF s.edges = <<>> THEN
            [s EXCEPT !.cur_states = s.next_states, !.it_end = TRUE]
        ELSE
            [s EXCEPT !.cur_states = s.next_states,
                      !.next_states = Head(s.edges),
                      !.edges = Tail(s.edges)]
    ELSE s

\* `while self.cur_time > self.next_states[0]` of advance.
RECURSIVE advance_loop(_)
advance_loop(s) ==
    IF advance_passes(s) THEN
        IF s.edges = <<>> THEN
            [s EXCEPT !.cur_states = s.next_states, !.it_end = TRUE]
        ELSE
            advance_loop([s EXCEPT !.cur_states = s.next_states,
                                   !.next_states = Head(s.edges),
                                   !.edges = Tail(s.edges)])
    ELSE s

\* EdgeSequence.advance(time_step): the object afterwards.
advance(s, time_step) ==
    LET step == IF time_step = None THEN s.time_step ELSE time_step
    IN  advance_loop([s EXCEPT !.cur_time = s.cur_time + step])

\* A bug: the end is never flagged when the stream runs out in
\* advance_to_edge.
flags_end_never(s, start_state) == FALSE

\* A bug: the end is flagged whenever the stream runs out, also on a final
\* edge that changed the state.
flags_end_always(s, start_state) == TRUE

\* Whether advance_to_edge flags the end when the stream runs out: "flag end
\* of sequence if the state remains the same (no final edge)".
flags_end(s, start_state) == s.cur_states[2] = start_state

\* A bug: the time to the next edge measured from the current edge, not from
\* the current time.
time_to_next_edge_from_edge(s) == s.next_states[1] - s.cur_states[1]

\* `self.next_states[0] - self.cur_time`, what advance_to_edge adds to its
\* time_step for each edge it moves to.
time_to_next_edge(s) == s.next_states[1] - s.cur_time

\* `while self.cur_states[1] == start_state` of advance_to_edge: the object
\* afterwards and the local time_step.
RECURSIVE advance_to_edge_loop(_, _, _)
advance_to_edge_loop(s, start_state, time_step) ==
    IF s.cur_states[2] = start_state THEN
        LET ts == time_step + time_to_next_edge(s)
            s1 == [s EXCEPT !.cur_time = s.next_states[1],
                            !.cur_states = s.next_states]
        IN  IF s.edges = <<>> THEN
                [seq |-> [s1 EXCEPT !.it_end =
                              IF flags_end(s1, start_state) THEN TRUE ELSE @],
                 ret |-> ts]
            ELSE
                advance_to_edge_loop([s1 EXCEPT !.next_states = Head(s.edges),
                                                !.edges = Tail(s.edges)],
                                     start_state, ts)
    ELSE [seq |-> s, ret |-> time_step]

\* EdgeSequence.advance_to_edge(): the object afterwards and the value returned.
advance_to_edge(s) ==
    IF s.it_end THEN [seq |-> s, ret |-> 0]
    ELSE advance_to_edge_loop(s, s.cur_states[2], 0)

\* A bug: only the first next(self.edges) is guarded, so that a stream of one
\* edge makes an object.
EdgeSequence_init_one(edges, time_step, st) ==
    IF Len(edges) < 1 THEN [raised |-> TRUE, seq |-> NoObject]
    ELSE [raised |-> FALSE,
          seq |-> [edges |-> Tail(edges), time_step |-> time_step,
                   it_end |-> FALSE, cur_states |-> edges[1],
                   next_states |-> edges[1], cur_time |-> edges[1][1]]]

\* EdgeSequence.__init__(edges, time_step, start_time): the object, and
\* whether StreamError was raised instead.
EdgeSequence_init(edges, time_step, st) ==
    IF Len(edges) < 2 THEN [raised |-> TRUE, seq |-> NoObject]
    ELSE
        LET s == EdgeSequence_fields(edges, time_step)
            init_step == st - s.cur_time
        IN  [raised |-> FALSE,
             seq |-> IF st # None /\ init_step > 0 THEN advance(s, init_step)
                     ELSE s]

cur_state(s) == s.cur_states[2]

at_end(s) == s.it_end

\* The edge streams handed to the cursors: strictly increasing times, any
\* succession of states.
MaxStreamLen == 4
MaxTime == 9          \* advance is not called beyond this time
CursorStates == {0, 1}
FirstTimes == {0, 1}
StreamGaps == {1, 2}
TimeStepArgs == {2}           \* the constructor's time_step
StartTimeArgs == {None, 1, 3}
AdvanceArgs == {None, 0, 1, 3}

RECURSIVE StreamsOfLen(_)
StreamsOfLen(n) ==
    IF n = 0 THEN {<<>>}
    ELSE IF n = 1 THEN {<<(<<t, s>>)>> : t \in FirstTimes, s \in CursorStates}
    ELSE {Append(p, <<p[Len(p)][1] + g, s>>) :
             p \in StreamsOfLen(n - 1), g \in StreamGaps, s \in CursorStates}

EdgeStreams == UNION {StreamsOfLen(n) : n \in 0..MaxStreamLen}

cursorIdle ==
    /\ edges_in = <<>> /\ start_time = None
    /\ es = NoObject /\ es_pc = "idle" /\ es_call = "" /\ es_ret = 0

\* An edge stream and the constructor's arguments are chosen.
CursorInit ==
    /\ edges_in \in EdgeStreams
    /\ start_time \in StartTimeArgs
    /\ es = NoObject /\ es_pc = "new" /\ es_call = "" /\ es_ret = 0

\* EdgeSequence(edges, time_step, start_time)
EdgeSequence_new ==
    /\ es_pc = "new"
    /\ \E time_step \in TimeStepArgs :
         LET r == EdgeSequence_init(edges_in, time_step, start_time)
         IN  /\ es' = r.seq
             /\ es_pc' = IF r.raised THEN "raised" ELSE "ready"
    /\ es_call' = "__init__"
    /\ UNCHANGED <<edges_in, start_time, es_ret>>
    /\ UNCHANGED notCursor

\* es.advance(time_step), time_step >= 0 or omitted
EdgeSequence_advance ==
    /\ es_pc = "ready"
    /\ \E time_step \in AdvanceArgs :
         /\ advance(es, time_step).cur_time <= MaxTime
         /\ es' = advance(es, time_step)
    /\ es_call' = "advance"
    /\ UNCHANGED <<edges_in, start_time, es_pc, es_ret>>
    /\ UNCHANGED notCursor

\* es.advance_to_edge()
EdgeSequence_advance_to_edge ==
    /\ es_pc = "ready"
    /\ es' = advance_to_edge(es).seq
    /\ es_ret' = advance_to_edge(es).ret
    /\ es_call' = "advance_to_edge"
    /\ UNCHANGED <<edges_in, start_time, es_pc>>
    /\ UNCHANGED notCursor

CursorNext ==
    \/ EdgeSequence_new
    \/ EdgeSequence_advance
    \/ EdgeSequence_advance_to_edge

\* ------------------------------------------------------- MultiEdgeSequence
\* self.channel_names, in the order of self.sequences; self.channel_ids maps
\* each name to its index.
channel_names == <<"a", "b">>
NoName == "<None>"            \* the argument channel_name=None
CallNames == {NoName, "a", "b", "x"}
channel_ids(name) == CHOOSE i \in DOMAIN channel_names : channel_names[i] = name
is_channel(name) == \E i \in DOMAIN channel_names : channel_names[i] = name

\* `active_seq`: the indexes of the sequences that are not at end.
active_seq(seqs) == {i \in DOMAIN seqs : ~at_end(seqs[i])}

\* min(active_seq, key=lambda x: x.next_states[0]): the first of the active
\* sequences, in the order of self.sequences, with the least next edge time.
nearest(seqs) ==
    CHOOSE i \in active_seq(seqs) :
        \A j \in active_seq(seqs) :
            \/ seqs[i].next_states[1] < seqs[j].next_states[1]
            \/ seqs[i].next_states[1] = seqs[j].next_states[1] /\ i <= j

\* Whether the other channels are advanced after edge_s.advance_to_edge().
others_follow(time_step) == time_step > 0

\* From `time_step = edge_s.advance_to_edge()` to the return, edge_s being
\* self.sequences[i].
advance_to_edge_on(seqs, i, name) ==
    LET r == advance_to_edge(seqs[i])
    IN  [sequences |-> [j \in DOMAIN seqs |->
                          IF j = i THEN r.seq
                          ELSE IF others_follow(r.ret) THEN advance(seqs[j], r.ret)
                          ELSE seqs[j]],
         ret |-> <<r.ret, name>>, exc |-> ""]

\* A bug: a name that is not a channel is taken as no name given.
multi_advance_to_edge_lenient(seqs, channel_name) ==
    IF channel_name = NoName \/ ~is_channel(channel_name) THEN
        IF active_seq(seqs) # {} THEN
            advance_to_edge_on(seqs, nearest(seqs), channel_names[nearest(seqs)])
        ELSE [sequences |-> seqs, ret |-> <<0, "">>, exc |-> ""]
    ELSE advance_to_edge_on(seqs, channel_ids(channel_name), channel_name)

\* MultiEdgeSequence.advance_to_edge(channel_name)
multi_advance_to_edge(seqs, channel_name) ==
    IF channel_name = NoName THEN
        IF active_seq(seqs) # {} THEN
            advance_to_edge_on(seqs, nearest(seqs), channel_names[nearest(seqs)])
        ELSE [sequences |-> seqs, ret |-> <<0, "">>, exc |-> ""]
    ELSE IF is_channel(channel_name) THEN
        advance_to_edge_on(seqs, channel_ids(channel_name), channel_name)
    ELSE [sequences |-> seqs, ret |-> <<0, "">>, exc |-> "ValueError"]

\* MultiEdgeSequence.advance(time_step)
multi_advance(seqs, time_step) ==
    [i \in DOMAIN seqs |-> advance(seqs[i], time_step)]

\* MultiEdgeSequence.cur_state(channel_name): the value returned, or the
\* exception raised.
multi_cur_state(seqs, channel_name) ==
    IF channel_name = NoName THEN
        [ret |-> [i \in DOMAIN seqs |-> cur_state(seqs[i])], exc |-> ""]
    ELSE IF is_channel(channel_name) THEN
        [ret |-> cur_state(seqs[channel_ids(channel_name)]), exc |-> ""]
    ELSE [ret |-> None, exc |-> "ValueError"]

\* MultiEdgeSequence.at_end(channel_name): the value returned, or the
\* exception raised.
multi_at_end(seqs, channel_name) ==
    IF channel_name = NoName THEN
        [ret |-> \A i \in DOMAIN seqs : at_end(seqs[i]), exc |-> ""]
    ELSE IF is_channel(channel_name) THEN
        [ret |-> at_end(seqs[channel_ids(channel_name)]), exc |-> ""]
    ELSE [ret |-> FALSE, exc |-> "ValueError"]

\* MultiEdgeSequence.cur_time()
multi_cur_time(seqs) == seqs[1].cur_time

\* The channels' edge streams: strictly increasing times, every edge a change
\* of state.
MaxMultiLen == 3
MaxMultiTime == 6     \* MultiEdgeSequence.advance is not called beyond this time
MultiStartTimeArgs == {None, 2}
MultiAdvanceArgs == {None, 1}

RECURSIVE ChannelStreamsOfLen(_)
ChannelStreamsOfLen(n) ==
    IF n <= 1 THEN StreamsOfLen(n)
    ELSE {Append(p, <<p[Len(p)][1] + g, 1 - p[Len(p)][2]>>) :
             p \in ChannelStreamsOfLen(n - 1), g \in StreamGaps}

MultiStreams == UNION {ChannelStreamsOfLen(n) : n \in 1..MaxMultiLen}

\* m_ret when the last call returned nothing (advance) or raised.
NoReturn == <<None, "">>

NoSequences == [i \in DOMAIN channel_names |-> NoObject]

multiIdle ==
    /\ edge_sets = <<>> /\ m_start_time = None
    /\ sequences = NoSequences
    /\ m_pc = "idle" /\ m_call = "" /\ m_arg = NoName
    /\ m_ret = NoReturn /\ m_exc = ""

\* The channels' edge streams and the constructor's arguments are chosen.
MultiInit ==
    /\ edge_sets \in [DOMAIN channel_names -> MultiStreams]
    /\ m_start_time \in MultiStartTimeArgs
    /\ sequences = NoSequences
    /\ m_pc = "new" /\ m_call = "" /\ m_arg = NoName
    /\ m_ret = NoReturn /\ m_exc = ""

\* MultiEdgeSequence(edge_sets, time_step, start_time)
MultiEdgeSequence_new ==
    /\ m_pc = "new"
    /\ \E time_step \in TimeStepArgs :
         LET r == [i \in DOMAIN channel_names |->
                      EdgeSequence_init(edge_sets[i], time_step, m_start_time)]
             raised == \E i \in DOMAIN r : r[i].raised
         IN  /\ sequences' = IF raised THEN NoSequences
                             ELSE [i \in DOMAIN r |-> r[i].seq]
             /\ m_pc' = IF raised THEN "raised" ELSE "ready"
             /\ m_exc' = IF raised THEN "StreamError" ELSE ""
    /\ m_call' = "__init__"
    /\ UNCHANGED <<edge_sets, m_start_time, m_arg, m_ret>>
    /\ UNCHANGED notMulti

\* m.advance(time_step)
MultiEdgeSequence_advance ==
    /\ m_pc = "ready"
    /\ \E time_step \in MultiAdvanceArgs :
         /\ \A i \in DOMAIN sequences :
                multi_advance(sequences, time_step)[i].cur_time <= MaxMultiTime
         /\ sequences' = multi_advance(sequences, time_step)
    /\ m_call' = "advance" /\ m_exc' = ""
    /\ m_arg' = NoName /\ m_ret' = NoReturn
    /\ UNCHANGED <<edge_sets, m_start_time, m_pc>>
    /\ UNCHANGED notMulti

\* m.advance_to_edge(channel_name)
MultiEdgeSequence_advance_to_edge ==
    /\ m_pc = "ready"
    /\ \E channel_name \in CallNames :
         LET r == multi_advance_to_edge(sequences, channel_name)
         IN  /\ sequences' = r.sequences
             /\ m_exc' = r.exc
             /\ m_ret' = IF r.exc = "" THEN r.ret ELSE NoReturn
             /\ m_arg' = channel_name
    /\ m_call' = "advance_to_edge"
    /\ UNCHANGED <<edge_sets, m_start_time, m_pc>>
    /\ UNCHANGED notMulti

\* m.cur_state(channel_name): nothing of the object is assigned.
MultiEdgeSequence_cur_state ==
    /\ m_pc = "ready"
    /\ \E channel_name \in CallNames :
         LET r == multi_cur_state(sequences, channel_name)
         IN  /\ m_exc' = r.exc
             /\ m_ret' = IF r.exc = "" THEN r.ret ELSE NoReturn
             /\ m_arg' = channel_name
    /\ m_call' = "cur_state"
    /\ UNCHANGED <<edge_sets, m_start_time, sequences, m_pc>>
    /\ UNCHANGED notMulti

\* m.at_end(channel_name): nothing of the object is assigned.
MultiEdgeSequence_at_end ==
    /\ m_pc = "ready"
    /\ \E channel_name \in CallNames :
         LET r == multi_at_end(sequences, channel_name)
         IN  /\ m_exc' = r.exc
             /\ m_ret' = IF r.exc = "" THEN r.ret ELSE NoReturn
             /\ m_arg' = channel_name
    /\ m_call' = "at_end"
    /\ UNCHANGED <<edge_sets, m_start_time, sequences, m_pc>>
    /\ UNCHANGED notMulti

MultiNext ==
    \/ MultiEdgeSequence_new
    \/ MultiEdgeSequence_advance
    \/ MultiEdgeSequence_advance_to_edge

MultiQueryNext ==
    \/ MultiEdgeSequence_new
    \/ MultiEdgeSequence_advance_to_edge
    \/ MultiEdgeSequence_cur_state
    \/ MultiEdgeSequence_at_end

\* The streams handed to a consumer that moves from edge to edge until the
\* end: every edge a change of state, but for the last one, which may repeat
\* the state before it (a stream that ends with no final edge).
RepeatEndStreamsOfLen(n) ==
    IF n <= 1 THEN {}
    ELSE {Append(p, <<p[Len(p)][1] + g, p[Len(p)][2]>>) :
             p \in ChannelStreamsOfLen(n - 1), g \in StreamGaps}

DrainStreams ==
    MultiStreams \cup UNION {RepeatEndStreamsOfLen(n) : n \in 1..MaxMultiLen}

\* The channels' edge streams are chosen; the object is constructed without
\* start_time.
MultiDrainInit ==
    /\ edge_sets \in [DOMAIN channel_names -> DrainStreams]
    /\ m_start_time = None
    /\ sequences = NoSequences
    /\ m_pc = "new" /\ m_call = "" /\ m_arg = NoName
    /\ m_ret = NoReturn /\ m_exc = ""

\* m.advance_to_edge(), no channel named
MultiEdgeSequence_advance_to_edge_unnamed ==
    /\ m_pc = "ready"
    /\ \E r \in {multi_advance_to_edge(sequences, NoName)} :
         /\ sequences' = r.sequences
         /\ m_exc' = r.exc
         /\ m_ret' = r.ret
    /\ m_call' = "advance_to_edge" /\ m_arg' = NoName
    /\ UNCHANGED <<edge_sets, m_start_time, m_pc>>
    /\ UNCHANGED notMulti

MultiDrainNext ==
    \/ MultiEdgeSequence_new
    \/ MultiEdgeSequence_advance_to_edge_unnamed

\* ------------------------------------------------------- find_hist_peaks
\* Bin counts are whole numbers and every comparison against the thresholds
\* t1 and t2 is made exactly, with both sides scaled to whole numbers.
RECURSIVE SumOf(_)
SumOf(seq) == IF seq = <<>> THEN 0 ELSE Head(seq) + SumOf(Tail(seq))

RECURSIVE SumSqOf(_)
SumSqOf(seq) ==
    IF seq = <<>> THEN 0 ELSE Head(seq) * Head(seq) + SumSqOf(Tail(seq))

\* `for b in hist: if b > 0: os.accumulate(b)`: the values accumulated.
PositiveBins(h) == SelectSeq(h, LAMBDA b : b > 0)

\* b < t1, where t1 = pop_mean + 2.0 * math.sqrt(pop_mean) and pop_mean is
\* S / n: b - pop_mean < 2 * sqrt(pop_mean).
below_t1(b, n, S) ==
    \/ b * n <= S
    \/ (b * n - S) * (b * n - S) < 4 * S * n

\* What the thresholds are made of: n and S, the number and the sum of the
\* bins above 0 (pop_mean = S / n); k, T and Q, the number, the sum and the sum
\* of squares of the bins above 0 and under t1, from which os.std(ddof=1) is
\* sqrt((k * Q - T * T) / (k * (k - 1))).
hist_stats(h) ==
    LET n == Len(PositiveBins(h))
        S == SumOf(PositiveBins(h))
        spread == SelectSeq(h, LAMBDA b : b > 0 /\ below_t1(b, n, S))
    IN  [n |-> n, S |-> S,
         k |-> Len(spread), T |-> SumOf(spread), Q |-> SumSqOf(spread)]

\* Whether mean() and std(ddof=1) have values: mean() needs one accumulated
\* value, the Bessel-corrected deviation needs two.
stats_defined(h) == hist_stats(h).n >= 1 /\ hist_stats(h).k >= 2

\* A bug: the threshold is pop_mean alone, the spread is left out.
at_least_mean(b, st) == b * st.n >= st.S

\* b >= t2, where t2 = pop_mean + 1.5 * os.std(ddof=1):
\* b - pop_mean >= 1.5 * sqrt((k * Q - T * T) / (k * (k - 1))). With fewer
\* than two values the deviation counts as 0, with none the mean does too.
at_least_t2(b, st) ==
    /\ b * st.n >= st.S
    /\ 4 * (b * st.n - st.S) * (b * st.n - st.S) * st.k * (st.k - 1)
           >= 9 * st.n * st.n * (st.k * st.Q - st.T * st.T)

NEED_PEAK == 1
IN_PEAK == 2

\* `for i, b in enumerate(hist)`: the scan from index i (counted from 0) on,
\* in state st, t being what the threshold t2 is made of; what `peaks` holds
\* at the end, and peak_start.
RECURSIVE scan(_, _, _, _, _, _)
scan(h, t, i, st, peak_start, pks) ==
    IF i >= Len(h) THEN [peaks |-> pks, peak_start |-> peak_start]
    ELSE IF st = NEED_PEAK THEN
        IF at_least_t2(h[i + 1], t) THEN scan(h, t, i + 1, IN_PEAK, i, pks)
        ELSE scan(h, t, i + 1, NEED_PEAK, peak_start, pks)
    ELSE
        IF ~at_least_t2(h[i + 1], t)
        THEN scan(h, t, i + 1, NEED_PEAK, peak_start,
                  Append(pks, <<peak_start, i>>))
        ELSE scan(h, t, i + 1, IN_PEAK, peak_start, pks)

\* find_hist_peaks from `state = NEED_PEAK` to the special case of the last
\* bin: the list `peaks` before merging and suppressing.
scanned_peaks(h) ==
    LET r == scan(h, hist_stats(h), 0, NEED_PEAK, -1, <<>>)
    IN  IF r.peak_start = Len(h) - 1
        THEN Append(r.peaks, <<r.peak_start, r.peak_start>>)
        ELSE r.peaks

\* gap < merge_gap, merge_gap = len(hist) / 100.0
below_merge_gap(gap, n) == 100 * gap < n

\* gap < suppress_gap, suppress_gap = len(hist) / 50.0
below_suppress_gap(gap, n) == 50 * gap < n

\* `for i, p in enumerate(peaks)` over the scanned peaks, from index i
\* (counted from 1 here) on: peaks, merged and suppressed at the end.
RECURSIVE mark_peaks(_, _, _, _, _, _)
mark_peaks(n, pks, i, prev_end, merged, suppressed) ==
    IF i > Len(pks) THEN
        [peaks |-> pks, merged |-> merged, suppressed |-> suppressed]
    ELSE
        LET s == pks[i][1]
            e == pks[i][2]
            first == i = 1      \* gap = 2.0 * suppress_gap
            merge == ~first /\ below_merge_gap(s - prev_end, n)
            suppress == /\ ~first
                        /\ ~below_merge_gap(s - prev_end, n)
                        /\ below_suppress_gap(s - prev_end, n)
        IN  mark_peaks(n,
                IF merge THEN [pks EXCEPT ![i] = <<pks[i - 1][1], e>>] ELSE pks,
                i + 1, e,
                IF merge THEN [merged EXCEPT ![i - 1] = 1] ELSE merged,
                IF suppress THEN [suppressed EXCEPT ![i] = 1] ELSE suppressed)

\* A bug: `merged` is not looked at: a peak merged into the next one is
\* returned as well.
filtered_peaks_keeps_merged(n, pks) ==
    LET zeros == [i \in 1..Len(pks) |-> 0]
        r == mark_peaks(n, pks, 1, 0, zeros, zeros)
        kept(i) == r.suppressed[i] = 0
        RECURSIVE keep(_)
        keep(i) == IF i > Len(pks) THEN <<>>
                   ELSE (IF kept(i) THEN <<r.peaks[i]>> ELSE <<>>) \o keep(i + 1)
    IN  keep(1)

\* filtered_peaks, what find_hist_peaks returns, from the scanned peaks.
filtered_peaks(n, pks) ==
    LET zeros == [i \in 1..Len(pks) |-> 0]
        r == mark_peaks(n, pks, 1, 0, zeros, zeros)
        kept(i) == r.merged[i] = 0 /\ r.suppressed[i] = 0
        RECURSIVE keep(_)
        keep(i) == IF i > Len(pks) THEN <<>>
                   ELSE (IF kept(i) THEN <<r.peaks[i]>> ELSE <<>>) \o keep(i + 1)
    IN  keep(1)

\* ----------------------------------------------- find_bot_top_hist_peaks
\* A bug: both levels are taken from the first peak.
end_peaks_first_only(pks) == <<pks[1], pks[1]>>

\* end_peaks = (peaks[0], peaks[-1])
end_peaks(pks) == <<pks[1], pks[Len(pks)]>>

\* cs = np.cumsum(hslice), as far as its j-th element (counted from 0), for
\* hslice = hist[p[0]:p[1]+1].
cs(h, p, j) == SumOf(SubSeq(h, p[1] + 1, p[1] + 1 + j))

\* The index in hist of the bin where the population of peak p reaches its
\* midpoint: p[0] + mid_ix, mid_ix being the first index of cs with
\* cs[i] >= mid_pop (0 when there is none), mid_pop = cs[-1] // 2.
mid_bin(h, p) ==
    LET last == p[2] - p[1]
        mid_pop == cs(h, p, last) \div 2
        reached == {j \in 0..last : cs(h, p, j) >= mid_pop}
        mid_ix == IF reached = {} THEN 0
                  ELSE CHOOSE j \in reached : \A m \in reached : j <= m
    IN  p[1] + mid_ix

\* tuple(sorted(bot_top))
sorted_pair(a, b) == IF a <= b THEN <<a, b>> ELSE <<b, a>>

\* "no result": find_bot_top_hist_peaks returned None.
NoLevels == <<>>

\* find_bot_top_hist_peaks from `if len(peaks) < 2` on: what it returns, pks
\* being what find_hist_peaks returned and centers the bin centres.
bot_top(h, centers, pks) ==
    IF Len(pks) < 2 THEN NoLevels
    ELSE sorted_pair(centers[mid_bin(h, end_peaks(pks)[1]) + 1],
                     centers[mid_bin(h, end_peaks(pks)[2]) + 1])

\* The histograms: up to MaxBins bins of any of the counts HistVals, followed
\* by as many empty bins as one of Pads says; with 100 of them two peaks one
\* bin apart are merged and a peak two bins after another is suppressed.
MaxBins == 6
HistVals == {0, 1, 2, 9}
Pads == {0, 100}
\* bin_centers: the bins are all of the width 2 * w and the first begins at lo
BinLows == {-4, 0}
BinHalfWidths == {1}

RECURSIVE HistsOfLen(_)
HistsOfLen(n) ==
    IF n = 0 THEN {<<>>}
    ELSE {Append(h, b) : h \in HistsOfLen(n - 1), b \in HistVals}

Hists ==
    {h \o [i \in 1..pad |-> 0] :
        h \in UNION {HistsOfLen(n) : n \in 1..MaxBins}, pad \in Pads}

histIdle ==
    /\ hist = <<>> /\ bin_centers = <<>> /\ h_pc = "idle"
    /\ peaks = <<>> /\ h_ret = NoLevels /\ h_exc = ""

\* find_bot_top_hist_peaks has made its histogram and the bin centres.
HistInit ==
    /\ hist \in Hists
    /\ \E lo \in BinLows, w \in BinHalfWidths :
          bin_centers = [i \in 1..Len(hist) |-> lo + (2 * i - 1) * w]
    /\ h_pc = "hist"
    /\ peaks = <<>> /\ h_ret = NoLevels /\ h_exc = ""

\* find_hist_peaks(hist), as far as the special case of the last bin. When
\* the accumulator has too few values for its mean or its corrected
\* deviation, it either fails or gives 0.
find_hist_peaks_scan ==
    /\ h_pc = "hist"
    /\ \/ /\ peaks' = scanned_peaks(hist)
          /\ h_pc' = "scanned"
          /\ UNCHANGED h_exc
       \/ /\ ~stats_defined(hist)
          /\ h_pc' = "raised" /\ h_exc' = "ZeroDivisionError"
          /\ UNCHANGED peaks
    /\ UNCHANGED <<hist, bin_centers, h_ret>>
    /\ UNCHANGED notHist

\* find_hist_peaks from `merge_gap = len(hist) / 100.0` to its return.
find_hist_peaks_filter ==
    /\ h_pc = "scanned"
    /\ peaks' = filtered_peaks(Len(hist), peaks)
    /\ h_pc' = "peaks"
    /\ UNCHANGED <<hist, bin_centers, h_ret, h_exc>>
    /\ UNCHANGED notHist

\* find_bot_top_hist_peaks from `if len(peaks) < 2` to its return.
find_bot_top_hist_peaks_return ==
    /\ h_pc = "peaks"
    /\ h_ret' = bot_top(hist, bin_centers, peaks)
    /\ h_pc' = "returned"
    /\ UNCHANGED <<hist, bin_centers, peaks, h_exc>>
    /\ UNCHANGED notHist

HistNext ==
    \/ find_hist_peaks_scan
    \/ find_hist_peaks_filter
    \/ find_bot_top_hist_peaks_return

\* ------------------------------------------------------ find_logic_levels
S_FIND_EDGE == 0
S_FINISH_BUF == 1

\* A bug: a list in the place of the deque: nothing is ever dropped.
buf_append_unbounded(b, ns, size) == Append(b, ns)

\* buf.append(ns) on collections.deque(maxlen=size): when the deque is full
\* the oldest value is dropped.
buf_append(b, ns, size) ==
    IF size = 0 THEN <<>>
    ELSE IF Len(b) < size THEN Append(b, ns)
    ELSE Append(Tail(b), ns)

\* abs(ns - os.mean()) > (3 * os.std()), for the accumulated values vals: the
\* mean is their sum S over their number n, the deviation is that of the
\* population, sqrt(n * Q - S * S) / n.
far_from_mean(ns, vals) ==
    LET n == Len(vals)
        S == SumOf(vals)
        Q == SumSqOf(vals)
    IN  (ns * n - S) * (ns * n - S) > 9 * (n * Q - S * S)

\* `os_init > 3 and abs(ns - os.mean()) > (3 * os.std())`
is_edge_event(n_init, ns, vals) == n_init > 3 /\ far_from_mean(ns, vals)

\* buf_remaining as assigned when the edge event is seen.
buf_remaining_at_edge(b, size) ==
    IF Len(b) < size \div 2 THEN size - Len(b) ELSE size \div 2

\* A bug: `or` in the place of `and`: the loop is left as soon as the
\* countdown is at zero or the buffer is full.
buffer_finished_either(remaining, b, size) == remaining <= 0 \/ Len(b) >= size

\* `if buf_remaining <= 0 and len(buf) >= buf_size: break`
buffer_finished(remaining, b, size) == remaining <= 0 /\ Len(b) >= size

\* A bug: the estimator is called whether or not an edge event was seen.
gives_up_never(st) == FALSE

\* `if state != S_FINISH_BUF: return None`
gives_up(st) == st # S_FINISH_BUF

\* The sample values, the arguments, and what find_logic_levels returns
\* when the estimator found two peaks.
MaxLevelSamples == 13
LevelVals == {0, 10}
MaxSamplesArgs == {0, 11, MaxLevelSamples}
BufSizes == {1, 2, 4, 24}
LevelReturns == {"None", "(low, high)"}

levelIdle ==
    /\ max_samples = 0 /\ buf_size = 0
    /\ ll_samples = <<>> /\ buf = <<>> /\ os = <<>> /\ os_init = 0
    /\ ll_state = S_FIND_EDGE /\ sc = 0 /\ buf_remaining = Unassigned
    /\ ll_pc = "idle" /\ ll_called = FALSE /\ ll_ret = ""

\* find_logic_levels(samples, max_samples, buf_size) up to its loop.
LevelsInit ==
    /\ max_samples \in MaxSamplesArgs /\ buf_size \in BufSizes
    /\ ll_samples = <<>> /\ buf = <<>> /\ os = <<>> /\ os_init = 0
    /\ ll_state = S_FIND_EDGE /\ sc = 0 /\ buf_remaining = Unassigned
    /\ ll_pc = "loop" /\ ll_called = FALSE /\ ll_ret = ""

\* One turn of `while sc < max_samples` in which next(samples) gives a
\* sample of value ns.
find_logic_levels_sample ==
    /\ ll_pc = "loop" /\ sc < max_samples
    /\ \E ns \in LevelVals :
         LET b == buf_append(buf, ns, buf_size)
         IN  /\ ll_samples' = Append(ll_samples, ns)
             /\ buf' = b
             /\ sc' = sc + 1
             /\ IF ll_state = S_FIND_EDGE THEN
                    /\ os' = Append(os, ns)
                    /\ os_init' = os_init + 1
                    /\ IF is_edge_event(os_init + 1, ns, Append(os, ns)) THEN
                           /\ ll_state' = S_FINISH_BUF
                           /\ buf_remaining' = buf_remaining_at_edge(b, buf_size)
                       ELSE UNCHANGED <<ll_state, buf_remaining>>
                    /\ UNCHANGED ll_pc
                ELSE
                    /\ buf_remaining' = buf_remaining - 1
                    /\ ll_pc' = IF buffer_finished(buf_remaining - 1, b, buf_size)
                                THEN "done" ELSE "loop"
                    /\ UNCHANGED <<os, os_init, ll_state>>
    /\ UNCHANGED <<max_samples, buf_size, ll_called, ll_ret>>
    /\ UNCHANGED notLevel

\* One turn of the loop in which next(samples) raises StopIteration: break.
find_logic_levels_exhausted ==
    /\ ll_pc = "loop" /\ sc < max_samples
    /\ ll_pc' = "done"
    /\ UNCHANGED <<max_samples, buf_size, ll_samples, buf, os, os_init,
                   ll_state, sc, buf_remaining, ll_called, ll_ret>>
    /\ UNCHANGED notLevel

\* `while sc < max_samples` is false: the loop is left.
find_logic_levels_limit ==
    /\ ll_pc = "loop" /\ ~(sc < max_samples)
    /\ ll_pc' = "done"
    /\ UNCHANGED <<max_samples, buf_size, ll_samples, buf, os, os_init,
                   ll_state, sc, buf_remaining, ll_called, ll_ret>>
    /\ UNCHANGED notLevel

\* After the loop: None, or what find_bot_top_hist_peaks(buf, 100,
\* use_kde=True) gives: None, the two levels, or its ValueError.
find_logic_levels_return ==
    /\ ll_pc = "done"
    /\ \/ /\ gives_up(ll_state)
          /\ ll_ret' = "None" /\ ll_pc' = "returned"
          /\ UNCHANGED ll_called
       \/ /\ ~gives_up(ll_state)
          /\ ll_called' = TRUE
          /\ \/ ll_ret' \in LevelReturns /\ ll_pc' = "returned"
             \/ ll_ret' = "ValueError" /\ ll_pc' = "raised"
    /\ UNCHANGED <<max_samples, buf_size, ll_samples, buf, os, os_init,
                   ll_state, sc, buf_remaining>>
    /\ UNCHANGED notLevel

LevelsNext ==
    \/ find_logic_levels_sample
    \/ find_logic_levels_exhausted
    \/ find_logic_levels_limit
    \/ find_logic_levels_return

\* ------------------------------------------------------- find_symbol_rate
\* The kernel density estimates are made outside this code; here such an
\* estimate is any array of whole numbers, of as many points as it has (the
\* code asks for 1000). Point i (counted from 0) stands at
\* x_hps[i] = i * step, step = mv / bins, mv = max(spans) * 1.1.
\* spans = e[1:] - e[:-1]
spans_of(e) == [i \in 1..(Len(e) - 1) |-> e[i + 1] - e[i]]

RECURSIVE MaxOf(_)
MaxOf(seq) ==
    IF Len(seq) = 1 THEN seq[1]
    ELSE LET m == MaxOf(Tail(seq)) IN IF seq[1] >= m THEN seq[1] ELSE m

\* s < x_hps[i] * 2, the limit found from the first peak of the estimate asl
\* over sp: s < 2 * i * (max(sp) * 1.1) / bins.
below_auto_limit(s, i, sp, bins) == 10 * s * bins < 22 * i * MaxOf(sp)

\* s < max_span_limit
below_limit(s, limit) == s < limit

\* What find_hist_peaks returns for the array h.
find_hist_peaks(h) == filtered_peaks(Len(h), scanned_peaks(h))

\* The index of x_hps at which hps is greatest within the first peak:
\* max(hps_pairs[peaks[0][0]:peaks[0][1]+1], key=lambda x: x[1]), the first
\* of them when several are.
peak_ix(h, p) ==
    CHOOSE i \in p[1]..p[2] :
        \A j \in p[1]..p[2] : h[i + 1] > h[j + 1] \/ (h[i + 1] = h[j + 1] /\ i <= j)

\* int(sample_rate / peak_span), peak_span = x_hps[i], i > 0
symbol_rate(rate, i, sp, bins) == (10 * rate * bins) \div (11 * i * MaxOf(sp))

\* The edges: up to MaxRateEdges of them, at increasing times.
MaxRateEdges == 3
RateGaps == {1, 2, 4}
SampleRates == {1, 1000}
SpanLimitArgs == {None, 2, 4}
RateHistVals == {0, 1, 9}
MaxRateBins == 3

RECURSIVE RateEdgesOfLen(_)
RateEdgesOfLen(n) ==
    IF n = 0 THEN {<<>>}
    ELSE IF n = 1 THEN {<<0>>}
    ELSE {Append(e, e[Len(e)] + g) : e \in RateEdgesOfLen(n - 1), g \in RateGaps}

RECURSIVE RateHistsOfLen(_)
RateHistsOfLen(n) ==
    IF n = 0 THEN {<<>>}
    ELSE {Append(h, b) : h \in RateHistsOfLen(n - 1), b \in RateHistVals}

\* The estimates a kernel density gives.
Estimates == UNION {RateHistsOfLen(n) : n \in 1..MaxRateBins}

rateIdle ==
    /\ rate_edges = <<>> /\ sample_rate = 0 /\ auto_span_limit = FALSE
    /\ max_span_limit = None /\ spans = <<>> /\ hps = <<>>
    /\ r_pc = "idle" /\ r_ret = None /\ r_exc = ""

\* find_symbol_rate(edges, sample_rate, spectra, auto_span_limit,
\* max_span_limit) is called.
RateInit ==
    /\ rate_edges \in UNION {RateEdgesOfLen(n) : n \in 0..MaxRateEdges}
    /\ sample_rate \in SampleRates
    /\ auto_span_limit \in BOOLEAN
    /\ max_span_limit \in SpanLimitArgs
    /\ spans = <<>> /\ hps = <<>>
    /\ r_pc = "call" /\ r_ret = None /\ r_exc = ""

\* `e = np.array(zip(*edges)[0])` and `spans = e[1:] - e[:-1]`: without an
\* edge zip() gives the empty list, and [0] of it raises IndexError.
find_symbol_rate_spans ==
    /\ r_pc = "call"
    /\ IF rate_edges = <<>> THEN
           /\ r_pc' = "raised" /\ r_exc' = "IndexError"
           /\ UNCHANGED spans
       ELSE
           /\ spans' = spans_of(rate_edges)
           /\ r_pc' = "spans"
           /\ UNCHANGED r_exc
    /\ UNCHANGED <<rate_edges, sample_rate, auto_span_limit, max_span_limit,
                   hps, r_ret>>
    /\ UNCHANGED notRate

\* From `if auto_span_limit` to the second `if len(spans) == 0`. With
\* auto_span_limit and no span, max(spans) raises ValueError.
find_symbol_rate_limit ==
    /\ r_pc = "spans"
    /\ \/ /\ auto_span_limit /\ spans = <<>>
          /\ r_pc' = "raised" /\ r_exc' = "ValueError"
          /\ UNCHANGED <<max_span_limit, spans>>
       \/ /\ ~(auto_span_limit /\ spans = <<>>)
          /\ \E asl \in Estimates :
               LET pks == find_hist_peaks(asl)
                   found == auto_span_limit /\ Len(pks) >= 1
                   kept(sp) ==
                       IF found
                       THEN below_auto_limit(sp, pks[1][2], spans, Len(asl))
                       ELSE max_span_limit = None \/ below_limit(sp, max_span_limit)
                   left == SelectSeq(spans, kept)
               IN  /\ max_span_limit' =
                          IF found
                          THEN <<22 * pks[1][2] * MaxOf(spans), 10 * Len(asl)>>
                          ELSE max_span_limit
                   /\ spans' = left
                   /\ r_pc' = IF left = <<>> THEN "raised" ELSE "filtered"
                   /\ r_exc' = IF left = <<>> THEN "ValueError" ELSE ""
    /\ UNCHANGED <<rate_edges, sample_rate, auto_span_limit, hps, r_ret>>
    /\ UNCHANGED notRate

\* From `mv = max(spans) * 1.1` to the return.
find_symbol_rate_return ==
    /\ r_pc = "filtered"
    /\ \E h \in Estimates :
         LET pks == find_hist_peaks(h)
         IN  /\ hps' = h
             /\ r_ret' = IF Len(pks) < 1 THEN 0
                         ELSE IF peak_ix(h, pks[1]) = 0 THEN 0
                         ELSE symbol_rate(sample_rate, peak_ix(h, pks[1]),
                                          spans, Len(h))
    /\ r_pc' = "returned"
    /\ UNCHANGED <<rate_edges, sample_rate, auto_span_limit, max_span_limit,
                   spans, r_exc>>
    /\ UNCHANGED notRate

RateNext ==
    \/ find_symbol_rate_spans
    \/ find_symbol_rate_limit
    \/ find_symbol_rate_return

genIdle ==
    /\ fn = "" /\ pc = "idle" /\ exc = ""
    /\ logic = SingleLogic /\ hysteresis = 0
    /\ samples = <<>> /\ out = <<>>
    /\ state = ES_START /\ prev_stable = Unassigned
    /\ filterIdle

GenInit ==
    /\ \/ find_edges_call
       \/ find_differential_edges_call
       \/ remove_short_diff_0s_call
    /\ cursorIdle /\ multiIdle /\ histIdle /\ levelIdle /\ rateIdle

GenNext ==
    \/ find_edges_first
    \/ find_edges_step
    \/ find_edges_end
    \/ find_differential_edges_first
    \/ find_differential_edges_step
    \/ find_differential_edges_end
    \/ remove_short_diff_0s_first
    \/ remove_short_diff_0s_step
    \/ remove_short_diff_0s_end

\* One call of an edge extractor or of the glitch filter, pulled to its end.
SpecGen == GenInit /\ [][GenNext]_vars

\* One EdgeSequence, constructed and then advanced by any calls.
InitCursor ==
    CursorInit /\ genIdle /\ multiIdle /\ histIdle /\ levelIdle /\ rateIdle

SpecCursor == InitCursor /\ [][CursorNext]_vars

\* One call of find_bot_top_hist_peaks, from its histogram on.
InitHist ==
    HistInit /\ genIdle /\ cursorIdle /\ multiIdle /\ levelIdle /\ rateIdle

SpecHist == InitHist /\ [][HistNext]_vars

\* One call of find_logic_levels, on an input that gives a sample whenever
\* asked or ends at any point.
InitLevels ==
    LevelsInit /\ genIdle /\ cursorIdle /\ multiIdle /\ histIdle /\ rateIdle

\* One call of find_symbol_rate.
InitRate ==
    RateInit /\ genIdle /\ cursorIdle /\ multiIdle /\ histIdle /\ levelIdle

SpecRate == InitRate /\ [][RateNext]_vars

SpecLevels == InitLevels /\ [][LevelsNext]_vars

\* The same, the call going on as long as it can take a step.
SpecLevelsFair == SpecLevels /\ WF_vars(LevelsNext)

\* Either of the two: a generator started and pulled, or a cursor constructed
\* and advanced.
InitStart == GenInit \/ InitCursor

StartNext == GenNext \/ CursorNext

SpecStart == InitStart /\ [][StartNext]_vars

\* One MultiEdgeSequence, constructed and then advanced by any calls.
InitMulti ==
    MultiInit /\ genIdle /\ cursorIdle /\ histIdle /\ levelIdle /\ rateIdle

SpecMulti == InitMulti /\ [][MultiNext]_vars

\* One MultiEdgeSequence, constructed without start_time, moved from edge to
\* edge and queried.
InitMultiQuery == InitMulti /\ m_start_time = None

SpecMultiQuery == InitMultiQuery /\ [][MultiQueryNext]_vars

\* One MultiEdgeSequence over finite streams, constructed and then moved by
\* a consumer that calls advance_to_edge() again and again.
InitMultiDrain ==
    MultiDrainInit /\ genIdle /\ cursorIdle /\ histIdle /\ levelIdle /\ rateIdle

SpecMultiDrain ==
    InitMultiDrain /\ [][MultiDrainNext]_vars /\ WF_vars(MultiDrainNext)

\* ======================================================================
\* Properties of the generators, checked under SpecGen
\* ======================================================================
IsExtractor == fn \in {"find_edges", "find_differential_edges"}

\* The zone of the k-th sample consumed by find_edges.
ZoneOf(k) == get_sample_zone(logic, hysteresis, samples[k][2])

StrictlyIncreasing(seq) ==
    \A i \in 1..(Len(seq) - 1) : seq[i][1] < seq[i + 1][1]

\* C2: in the stream yielded by find_edges and find_differential_edges the
\* first element is the initial state (the time of the first sample and its
\* level against the plain thresholds) and every later element is a
\* transition: its state differs from the state of the element before it.
C2_LaterElementsAreTransitions ==
    (IsExtractor /\ Len(out) >= 1) =>
        /\ out[1] = IF fn = "find_edges"
                    THEN initial_state(logic, samples[1][1], samples[1][2])
                    ELSE diff_initial_state(logic, samples[1][1], samples[1][2])
        /\ \A i \in 2..Len(out) : out[i][2] # out[i - 1][2]

\* The edges the stable-zone crossings of samples k..Len(samples) call for: one
\* for each sample that lies in another stable zone than the sample before it.
RECURSIVE StableCrossings(_)
StableCrossings(k) ==
    IF k > Len(samples) THEN <<>>
    ELSE (IF ZoneOf(k) # ZoneOf(k - 1)
          THEN <<(<<samples[k][1], zone_to_logic_state(ZoneOf(k))>>)>>
          ELSE <<>>) \o StableCrossings(k + 1)

AllSamplesStable == \A k \in 1..Len(samples) : is_stable_zone(ZoneOf(k))

\* C3: find_edges on samples that all lie in a stable zone yields, after the
\* initial element, exactly one edge for each pair of consecutive samples in
\* different stable zones, at the time of the later sample and with its
\* level, and no other edge.
C3_OneEdgePerStableCrossing ==
    (fn = "find_edges" /\ Len(samples) >= 1 /\ AllSamplesStable) =>
        Tail(out) = StableCrossings(2)

\* Samples k..j of find_edges are a dip into the hysteresis band: sample k is
\* in a stable zone and puts the machine there, samples k+1..j-1 are in the
\* band, sample j is back in the zone of sample k.
IsDip(k, j) ==
    /\ 2 <= k /\ k + 1 < j /\ j <= Len(samples)
    /\ is_stable_zone(ZoneOf(k))
    /\ \A m \in (k + 1)..(j - 1) : ZoneOf(m) = ZONE_2_T
    /\ ZoneOf(j) = ZoneOf(k)

\* C4: noise rejection in find_edges: a run of samples that enters the
\* hysteresis band from a stable zone and returns to the same stable zone
\* yields no edge, however long it stays in the band.
C4_NoiseRejected ==
    fn = "find_edges" =>
        \A k \in 1..Len(samples), j \in 1..Len(samples) :
            IsDip(k, j) =>
                \A e \in 2..Len(out) :
                    ~(samples[k][1] < out[e][1] /\ out[e][1] <= samples[j][1])

\* A dip has been processed, and an edge was yielded elsewhere.
C4_Witness ==
    /\ fn = "find_edges" /\ pc = "run"
    /\ \E k \in 1..Len(samples), j \in 1..Len(samples) : IsDip(k, j)
    /\ Len(out) >= 2

\* The number of elements of seq with a time from lo to hi.
RECURSIVE CountIn(_, _, _)
CountIn(seq, lo, hi) ==
    IF seq = <<>> THEN 0
    ELSE (IF lo <= Head(seq)[1] /\ Head(seq)[1] <= hi THEN 1 ELSE 0)
         + CountIn(Tail(seq), lo, hi)

\* Input edge i of the glitch filter starts a differential 0 that the next
\* input edge ends in less than min_diff_0_time.
IsShortDiff0(i) ==
    /\ 2 <= i /\ i < Len(samples)
    /\ samples[i][2] = 0
    /\ samples[i + 1][1] - samples[i][1] < min_diff_0_time

\* C5: remove_short_diff_0s puts exactly one edge in the place of a short
\* differential 0 (t0, 0), (t1, s): the edge ((t0 + t1)/2, s); neither
\* (t0, 0) nor (t1, s) is yielded in addition.
C5_ShortDiff0BecomesOneEdge ==
    (fn = "remove_short_diff_0s" /\ pc = "returned") =>
        \A i \in 1..Len(samples) :
            IsShortDiff0(i) =>
                /\ CountIn(out, samples[i][1], samples[i + 1][1]) = 1
                /\ \E e \in 1..Len(out) :
                       out[e] = <<Midpoint(samples[i][1], samples[i + 1][1]),
                                  samples[i + 1][2]>>

\* Every differential 0 of the input lasts at least min_diff_0_time.
NoShortDiff0 ==
    \A i \in 1..(Len(samples) - 1) :
        samples[i][2] = 0 =>
            samples[i + 1][1] - samples[i][1] >= min_diff_0_time

\* C6: remove_short_diff_0s on a non-empty input in which every differential 0
\* lasts at least min_diff_0_time yields the input, element for element: each
\* edge once, the last edge last (and before the input ends, every edge but
\* the one it holds back).
C6_LongDiff0sUnmodified ==
    (fn = "remove_short_diff_0s" /\ Len(samples) >= 1 /\ NoShortDiff0) =>
        /\ pc = "returned" => out = samples
        /\ pc = "run" => out = SubSeq(samples, 1, Len(samples) - 1)

\* The filter returned on an input with a differential 0 of exactly
\* min_diff_0_time, and none shorter.
C6_Witness ==
    /\ fn = "remove_short_diff_0s" /\ pc = "returned"
    /\ NoShortDiff0
    /\ \E i \in 2..(Len(samples) - 1) :
           /\ samples[i][2] = 0
           /\ samples[i + 1][1] - samples[i][1] = min_diff_0_time
    /\ out = samples

\* C7: the times of the elements yielded by find_edges, find_differential_edges
\* and remove_short_diff_0s are strictly increasing (the input times are), the
\* midpoint edges of the glitch filter included.
C7_OutputTimesIncrease ==
    StrictlyIncreasing(samples) => StrictlyIncreasing(out)

\* The filter returned after yielding a midpoint edge between two others.
C7_Witness ==
    /\ fn = "remove_short_diff_0s" /\ pc = "returned"
    /\ \E i \in 1..Len(samples) :
           /\ IsShortDiff0(i)
           /\ \E e \in 2..(Len(out) - 1) :
                  out[e][1] = Midpoint(samples[i][1], samples[i + 1][1])

\* C20: in the output of remove_short_diff_0s no differential 0 shorter than
\* min_diff_0_time survives: every element of state 0 that is followed by
\* another element is followed at least min_diff_0_time later, the first
\* element of the stream included.
C20_NoShortDiff0Survives ==
    (fn = "remove_short_diff_0s" /\ pc = "returned") =>
        \A e \in 1..(Len(out) - 1) :
            out[e][2] = 0 => out[e + 1][1] - out[e][1] >= min_diff_0_time

\* The zone of the k-th sample consumed by find_differential_edges.
DiffZoneOf(k) == diff_get_sample_zone(logic, hysteresis, samples[k][2])

\* The samples the machine of find_differential_edges has processed that lie
\* in a stable zone (the first sample consumed only makes the initial state).
StableSamples == {k \in 2..Len(samples) : diff_is_stable_zone(DiffZoneOf(k))}

\* The machine has left START: it does so on the first such sample.
LeftStart == StableSamples # {}

\* The zone the machine is in: the zone of the sample it processed last.
MachineZone == DiffZoneOf(Len(samples))

\* The stable zone the machine was in when it last entered the transition
\* band: the zone of the latest sample in a stable zone.
StableOnEntry ==
    DiffZoneOf(CHOOSE k \in StableSamples : \A j \in StableSamples : j <= k)

\* The machine of find_differential_edges, out of START, is given a sample.
DiffSampleStep ==
    /\ fn = "find_differential_edges" /\ pc = "run" /\ LeftStart
    /\ Len(samples') = Len(samples) + 1

\* C23: find_differential_edges, once the machine has left START: a sample
\* yields an edge exactly when (a) the machine was in a stable zone and the
\* sample is in another stable zone, or (b) the machine was in a transition
\* zone, possibly after moving between the two, and the sample is in a stable
\* zone other than the one recorded on entry into the transition band; the
\* state yielded is the level of the sample's zone, one of -1, 0, 1.
C23_DiffYieldsExactlyOnZoneChange ==
    [][DiffSampleStep =>
          LET new == samples'[Len(samples')]
              zone == diff_get_sample_zone(logic, hysteresis, new[2])
              a == /\ diff_is_stable_zone(MachineZone)
                   /\ diff_is_stable_zone(zone) /\ zone # MachineZone
              b == /\ MachineZone \in {ZONE_2_HT, ZONE_4_LT}
                   /\ diff_is_stable_zone(zone) /\ zone # StableOnEntry
          IN  /\ pc' = "run"
              /\ state = MachineZone
              /\ IF a \/ b
                 THEN /\ out' = Append(out, <<new[1],
                                              diff_zone_to_logic_state(zone)>>)
                      /\ out'[Len(out')][2] \in {-1, 0, 1}
                 ELSE out' = out]_vars

\* The machine went from D+ into the high transition zone, on into the low
\* one, and left the band into D-, which yielded an edge of state -1.
C23_Witness ==
    /\ fn = "find_differential_edges" /\ Len(samples) = 5
    /\ DiffZoneOf(2) = ZONE_1_DP /\ DiffZoneOf(3) = ZONE_2_HT
    /\ DiffZoneOf(4) = ZONE_4_LT /\ DiffZoneOf(5) = ZONE_5_DM
    /\ out[Len(out)] = <<samples[5][1], -1>>

\* The zone of the k-th sample consumed by the edge extractor called, and
\* whether it is a stable one.
ExtractorZoneOf(k) == IF fn = "find_edges" THEN ZoneOf(k) ELSE DiffZoneOf(k)

InStableZone(k) ==
    IF fn = "find_edges" THEN is_stable_zone(ZoneOf(k))
    ELSE diff_is_stable_zone(DiffZoneOf(k))

TransitionStates ==
    IF fn = "find_edges" THEN {ZONE_2_T} ELSE {ZONE_2_HT, ZONE_4_LT}

\* C24 as stated: in find_edges and find_differential_edges, when the first
\* sample processed in the START state lies in a transition zone, the machine
\* enters the transition state (from where an exit into a stable zone reads a
\* previous-stable value that was never assigned).
C24_FirstTransitionSampleEntersBand ==
    (IsExtractor /\ pc = "run" /\ Len(samples) = 2 /\ ~InStableZone(2)) =>
        state = ExtractorZoneOf(2)

\* C24: in find_edges and find_differential_edges the machine stays in START,
\* yielding nothing, as long as the samples it processes lie in a transition
\* zone; it is in a transition state only with the previous-stable value
\* assigned, and no exit from the band reads an unassigned value.
C24_StartWaitsForStableZone ==
    IsExtractor =>
        /\ exc # "UnboundLocalError"
        /\ state \in TransitionStates => prev_stable # Unassigned
        /\ (Len(samples) >= 2 /\ \A k \in 2..Len(samples) : ~InStableZone(k)) =>
               /\ state = ES_START
               /\ Len(out) = 1

\* The first sample find_edges processed was in the transition zone; later
\* the machine went from high into the band and left it to low, which
\* yielded an edge.
C24_Witness ==
    /\ fn = "find_edges" /\ Len(samples) = 5
    /\ ZoneOf(2) = ZONE_2_T /\ ZoneOf(3) = ZONE_1_L1
    /\ ZoneOf(4) = ZONE_2_T /\ ZoneOf(5) = ZONE_3_L0
    /\ out[Len(out)] = <<samples[5][1], 0>>

\* ======================================================================
\* Properties of EdgeSequence, checked under SpecCursor
\* ======================================================================
Ready == es_pc = "ready"

\* C8: over any calls of advance(time_step), time_step >= 0, and
\* advance_to_edge(), cur_time never decreases, and each advance_to_edge()
\* returns a value that is not negative and is the amount by which cur_time
\* grew during the call.
C8_TimeNeverDecreases ==
    [][(Ready /\ Ready') =>
          /\ es'.cur_time >= es.cur_time
          /\ es_call' = "advance_to_edge" =>
                 /\ es_ret' >= 0
                 /\ es_ret' = es'.cur_time - es.cur_time]_vars

\* advance_to_edge() has moved a cursor that stood between two edges.
C8_Witness ==
    /\ Ready /\ es_call = "advance_to_edge" /\ es_ret > 0
    /\ es.cur_time - es_ret \notin {edges_in[i][1] : i \in DOMAIN edges_in}

\* The stream holds an edge whose time is beyond the cursor's position.
EdgeBeyond(s, stream) == \E i \in DOMAIN stream : stream[i][1] > s.cur_time

\* C9 as stated: at_end() is true exactly when the stream holds no edge
\* beyond the cursor's current position.
C9_AtEndIffNoEdgeBeyond ==
    Ready => (at_end(es) <=> ~EdgeBeyond(es, edges_in))

\* C9: whenever at_end() is true, the stream holds no edge beyond the cursor's
\* current position (at_end() can still be false there).
C9_AtEndOnlyIfNoEdgeBeyond ==
    (Ready /\ at_end(es)) => ~EdgeBeyond(es, edges_in)

\* advance() has carried the cursor past the last edge of a stream of more
\* than two edges, and flagged the end.
C9_Witness ==
    /\ Ready /\ at_end(es) /\ es_call = "advance"
    /\ Len(edges_in) > 2
    /\ es.cur_time > edges_in[Len(edges_in)][1]

\* The state of the latest edge of the stream at or before time t.
StateAt(stream, t) ==
    LET last == CHOOSE i \in DOMAIN stream :
                    /\ stream[i][1] <= t
                    /\ \A j \in DOMAIN stream : stream[j][1] <= t => j <= i
    IN  stream[last][2]

\* C10: on a cursor that is not at end, cur_state() is the state of the latest
\* edge of the stream whose time is <= cur_time, also when cur_time is
\* exactly the time of an edge.
C10_StateIsLatestEdgeAtOrBefore ==
    (Ready /\ ~at_end(es)) => cur_state(es) = StateAt(edges_in, es.cur_time)

\* C11: after construction (with or without start_time) and after every
\* advance or advance_to_edge call, as long as at_end() is false, cur_time is
\* at most the time of the stored next edge.
C11_TimeAtMostNextEdge ==
    (Ready /\ ~at_end(es)) => es.cur_time <= es.next_states[1]

\* advance() has carried the cursor over two edges at once and it stands
\* before the next one, not at end.
C11_Witness ==
    /\ Ready /\ ~at_end(es) /\ es_call = "advance"
    /\ Len(edges_in) >= 4
    /\ es.cur_states = edges_in[3] /\ es.next_states = edges_in[4]
    /\ es.cur_time - 3 <= edges_in[2][1]
    /\ es.cur_time < es.next_states[1]

\* The edges of the stream from time t on, up to the time u (excluded).
EdgesFromUpTo(stream, t, u) ==
    {j \in DOMAIN stream : stream[j][1] >= t /\ stream[j][1] < u}

\* The cursor s1 stands on an edge of the stream that changed the state of
\* the cursor s: the first such edge from the position of s on.
OnStateChange(s, s1, stream) ==
    \E i \in DOMAIN stream :
        /\ s1.cur_states = stream[i]
        /\ s1.cur_time = stream[i][1]
        /\ stream[i][2] # cur_state(s)
        /\ \A j \in EdgesFromUpTo(stream, s.cur_time, stream[i][1]) :
               stream[j][2] = cur_state(s)

\* The stream has run out and held no change of state from the position of
\* the cursor s on.
RanOutUnchanged(s, s1, stream) ==
    /\ s1.edges = <<>>
    /\ cur_state(s1) = cur_state(s)
    /\ \A j \in DOMAIN stream :
           stream[j][1] >= s.cur_time => stream[j][2] = cur_state(s)

\* C21: advance_to_edge() on a cursor that is not at end returns with
\* cur_state() different from the state before the call, the cursor standing
\* exactly on the edge that changed the state, or with the cursor marked at
\* end; the call marks it at end only if the stream ran out with the state
\* still the one before the call. On a cursor already at end it returns 0.0
\* and changes nothing.
C21_StopsOnStateChangeOrEnd ==
    [][(Ready /\ es_call' = "advance_to_edge") =>
          IF at_end(es) THEN es' = es /\ es_ret' = 0
          ELSE /\ \/ /\ cur_state(es') # cur_state(es)
                     /\ OnStateChange(es, es', edges_in)
                  \/ at_end(es')
               /\ at_end(es') => RanOutUnchanged(es, es', edges_in)]_vars

\* advance_to_edge() has gone from the first edge over an edge that kept the
\* state to the third edge, which changed it.
C21_Witness ==
    /\ Ready /\ ~at_end(es) /\ es_call = "advance_to_edge"
    /\ Len(edges_in) >= 3
    /\ edges_in[2][2] = edges_in[1][2] /\ edges_in[3][2] # edges_in[1][2]
    /\ es.cur_states = edges_in[3]
    /\ es_ret = edges_in[3][1] - edges_in[1][1]

\* ======================================================================
\* Properties of MultiEdgeSequence, checked under SpecMulti
\* ======================================================================
\* C1: after each call of MultiEdgeSequence.advance and advance_to_edge, all
\* channel cursors have the same cur_time, whatever the channels' first edge
\* times and whether or not start_time is given.
C1_CursorsShareTime ==
    (m_pc = "ready" /\ m_call \in {"advance", "advance_to_edge"}) =>
        \A i \in DOMAIN sequences, j \in DOMAIN sequences :
            sequences[i].cur_time = sequences[j].cur_time

\* The least upcoming-edge time among the channels that are not at end.
NearestEdgeTime(seqs) ==
    CHOOSE t \in {seqs[i].next_states[1] : i \in active_seq(seqs)} :
        \A i \in active_seq(seqs) : t <= seqs[i].next_states[1]

\* A call of advance_to_edge() without a channel name, on an object that has
\* a channel not at end.
UnnamedAdvanceToEdge ==
    /\ m_pc = "ready" /\ active_seq(sequences) # {}
    /\ m_call' = "advance_to_edge" /\ m_arg' = NoName

\* C12: advance_to_edge() without a channel name, at least one channel not
\* being at end, returns as elapsed time the least upcoming-edge time among
\* the channels not at end minus the current time, and as name a channel
\* whose upcoming edge is at that time: the first of them in the order of the
\* channels, every time.
C12_NearestEdgeReturned ==
    [][UnnamedAdvanceToEdge =>
          LET tmin == NearestEdgeTime(sequences)
              tied == {i \in active_seq(sequences) :
                          sequences[i].next_states[1] = tmin}
          IN  /\ m_ret'[1] = tmin - multi_cur_time(sequences)
              /\ \E i \in tied :
                     /\ m_ret'[2] = channel_names[i]
                     /\ \A j \in tied : i <= j]_vars

\* ======================================================================
\* Properties of MultiEdgeSequence, checked under SpecMultiDrain
\* ======================================================================
\* at_end() is true: every channel is at end.
AllAtEnd == m_pc = "ready" /\ multi_at_end(sequences, NoName).ret

\* C22: over finite edge streams on every channel (the constructor raises
\* on a stream of fewer than two edges), a consumer that calls
\* advance_to_edge() without a channel name again and again reaches a state
\* where at_end() is true for all channels; the end flag of a channel never
\* goes back to false, and from then on advance_to_edge() returns (0.0, '')
\* and changes no cursor.
C22_DrainsToEnd ==
    /\ <>(m_pc = "raised" \/ AllAtEnd)
    /\ [][/\ m_pc = "ready" =>
                 (\A i \in DOMAIN sequences :
                      at_end(sequences[i]) => at_end(sequences'[i]))
          /\ (AllAtEnd /\ m_call' = "advance_to_edge" /\ m_arg' = NoName) =>
                 /\ m_ret' = <<0, "">>
                 /\ sequences' = sequences]_vars

\* Both channels are at end and advance_to_edge() has returned (0.0, ''),
\* one channel having ended on an edge that changed its state and the other
\* on an edge that repeated it.
C22_Witness ==
    /\ AllAtEnd /\ m_call = "advance_to_edge" /\ m_ret = <<0, "">>
    /\ \E i, j \in DOMAIN edge_sets :
           LET n == Len(edge_sets[i])
               k == Len(edge_sets[j])
           IN  /\ n >= 3 /\ edge_sets[i][n][2] # edge_sets[i][n - 1][2]
               /\ k >= 3 /\ edge_sets[j][k][2] = edge_sets[j][k - 1][2]

\* ======================================================================
\* Properties of MultiEdgeSequence, checked under SpecMultiQuery
\* ======================================================================
\* A call of advance_to_edge, cur_state or at_end with a name that is not one
\* of the channels.
UnknownNameCall ==
    /\ m_pc = "ready"
    /\ m_call' \in {"advance_to_edge", "cur_state", "at_end"}
    /\ m_arg' # NoName /\ ~is_channel(m_arg')

\* C13: advance_to_edge(name), cur_state(name) and at_end(name) with a name
\* that is not one of the channels raise ValueError and leave every channel
\* cursor as it was: cur_time, current edge, next edge, end flag and position
\* in the stream.
C13_UnknownNameRaises ==
    [][UnknownNameCall =>
          /\ m_exc' = "ValueError"
          /\ sequences' = sequences]_vars

\* advance_to_edge was refused an unknown name on cursors that had moved on
\* from their first edges, one of them to its end.
C13_Witness ==
    /\ m_pc = "ready" /\ m_call = "advance_to_edge" /\ m_arg = "x"
    /\ m_exc = "ValueError"
    /\ \A i \in DOMAIN sequences : sequences[i].cur_time > edge_sets[i][1][1]
    /\ \E i \in DOMAIN sequences : at_end(sequences[i])
    /\ \E i \in DOMAIN sequences : ~at_end(sequences[i])

\* ======================================================================
\* Properties of starting on a short stream, checked under SpecStart
\* ======================================================================
\* The generator has been pulled at least once.
Pulled == fn # "" /\ pc \in {"run", "returned", "raised"}

\* The constructor of the EdgeSequence has been run.
Constructed == es_pc \in {"ready", "raised"}

\* C14: find_edges, find_differential_edges and remove_short_diff_0s, pulled
\* for the first time on an empty input, raise StreamError and have yielded
\* nothing (and on an input with an element they do not raise); the
\* constructor of EdgeSequence raises StreamError on a stream of zero or one
\* edge and makes the object on a stream of two or more.
C14_ShortStreamRaises ==
    /\ Pulled =>
          /\ samples = <<>> => (pc = "raised" /\ exc = "StreamError" /\ out = <<>>)
          /\ samples # <<>> => (pc # "raised" /\ exc = "")
    /\ Constructed =>
          /\ Len(edges_in) < 2 => (es_pc = "raised" /\ es = NoObject)
          /\ Len(edges_in) >= 2 => es_pc = "ready"

\* The constructor has refused a stream of exactly one edge.
C14_Witness ==
    es_pc = "raised" /\ Len(edges_in) = 1 /\ es_call = "__init__"

\* ======================================================================
\* Properties of find_bot_top_hist_peaks, checked under SpecHist
\* ======================================================================
\* v is the centre of a bin inside peak p: a bin from p[0] to p[1].
CenterInside(v, p) == \E i \in p[1]..p[2] : v = bin_centers[i + 1]

AboveT2(i) == at_least_t2(hist[i], hist_stats(hist))

\* The bins that begin a maximal run of bins with a count of at least t2, and
\* the last bin of the run that begins at bin a.
RunStarts ==
    {a \in 1..Len(hist) : AboveT2(a) /\ (a = 1 \/ ~AboveT2(a - 1))}

RunEnd(a) ==
    CHOOSE b \in a..Len(hist) :
        /\ \A j \in a..b : AboveT2(j)
        /\ b = Len(hist) \/ ~AboveT2(b + 1)

\* The peak the run beginning at bin a is to yield, in the indices of the
\* code (counted from 0): from its first bin to the first bin after it, or
\* to the final bin when the run is still open there.
PeakOfRun(a) ==
    <<a - 1, IF RunEnd(a) < Len(hist) THEN RunEnd(a) ELSE Len(hist) - 1>>

\* C26: the scan of find_hist_peaks: every maximal run of consecutive bins
\* with a count of at least t2 yields exactly one peak in the list before
\* merging, which starts at the first bin of the run and is closed at the
\* first bin after it with a count under t2; so does a run that is still
\* open at the final bin, whatever its length. (Stated for the histograms
\* whose thresholds are defined.)
C26_OnePeakPerRun ==
    (h_pc = "scanned" /\ stats_defined(hist)) =>
        /\ Len(peaks) = Cardinality(RunStarts)
        /\ \A a \in RunStarts :
               \E i \in DOMAIN peaks : peaks[i] = PeakOfRun(a)

\* The gap before the i-th scanned peak of the list pks: from the end of the
\* peak before it to its start.
GapBefore(pks, i) == pks[i][1] - pks[i - 1][2]

\* The i-th scanned peak is marked suppressed: it is not the first and
\* merge_gap <= gap < suppress_gap.
MarkedSuppressed(pks, i) ==
    /\ i > 1
    /\ ~below_merge_gap(GapBefore(pks, i), Len(hist))
    /\ below_suppress_gap(GapBefore(pks, i), Len(hist))

\* The intervals p and q have a bin in common.
Overlap(p, q) == p[1] <= q[2] /\ q[1] <= p[2]

\* C27: the post-processing of find_hist_peaks drops a peak marked
\* suppressed (merge_gap <= gap < suppress_gap) entirely: no returned peak
\* starts at the start of a suppressed peak or overlaps its interval, also
\* when the peak after the suppressed one lies within merge_gap of it.
C27_SuppressedPeakDropped ==
    [][(h_pc = "scanned" /\ h_pc' = "peaks") =>
          \A i \in DOMAIN peaks :
              MarkedSuppressed(peaks, i) =>
                  \A j \in DOMAIN peaks' :
                      /\ peaks'[j][1] # peaks[i][1]
                      /\ ~Overlap(peaks'[j], peaks[i])]_vars

\* C28: in the list find_hist_peaks returns, for every histogram, every peak
\* has start <= end, and the peaks are in increasing order of index and do
\* not overlap: the start of each is greater than the end of the returned
\* peak before it; the first scanned peak is never suppressed: the first
\* returned peak starts where it starts; and the list is not empty whenever
\* the scan found a peak.
C28_ReturnedPeaksOrdered ==
    [][(h_pc = "scanned" /\ h_pc' = "peaks") =>
          /\ \A j \in DOMAIN peaks' : peaks'[j][1] <= peaks'[j][2]
          /\ \A j \in 2..Len(peaks') : peaks'[j][1] > peaks'[j - 1][2]
          /\ peaks # <<>> =>
                 /\ peaks' # <<>>
                 /\ peaks'[1][1] = peaks[1][1]]_vars

\* Two peaks are returned, one of them over an empty bin: it was merged from
\* two scanned peaks.
C28_Witness ==
    /\ h_pc = "peaks" /\ Len(peaks) >= 2
    /\ \E j \in DOMAIN peaks :
           \E b \in (peaks[j][1] + 1)..(peaks[j][2] - 1) : hist[b + 1] = 0

\* ======================================================================
\* Properties of find_logic_levels, checked under SpecLevels and, for what
\* has to happen in the end, SpecLevelsFair
\* ======================================================================
\* C16: in find_logic_levels, at every step, the sample buffer holds at most
\* buf_size samples and no more than max_samples samples have been pulled
\* from the input; and the sampling loop is left in the end, whether the
\* input ends or not.
C16_BoundedSampling ==
    /\ [](ll_pc # "idle" =>
             /\ Len(buf) <= buf_size
             /\ Len(ll_samples) <= max_samples
             /\ sc = Len(ll_samples))
    /\ <>(ll_pc # "loop")

\* The loop was left at the limit max_samples with a full buffer that has
\* dropped samples.
C16_Witness ==
    /\ ll_pc = "done" /\ sc = max_samples /\ max_samples > 0
    /\ Len(buf) = buf_size /\ Len(ll_samples) > buf_size

\* The n-th sample pulled is an edge event: it is the fourth or a later one
\* and lies more than three standard deviations from the mean of the first n.
EdgeEventAt(n) ==
    n > 3 /\ far_from_mean(ll_samples[n], SubSeq(ll_samples, 1, n))

EdgeEventSeen == \E n \in 1..Len(ll_samples) : EdgeEventAt(n)

\* C17: find_logic_levels returns None, without calling the estimator
\* find_bot_top_hist_peaks, whenever no edge event was seen before the loop
\* was left, be it at the end of the input or at the limit max_samples; the
\* estimator is called only after an edge event.
C17_NoEdgeNoEstimate ==
    ll_pc \in {"returned", "raised"} =>
        /\ ~EdgeEventSeen => (ll_pc = "returned" /\ ll_ret = "None" /\ ~ll_called)
        /\ ll_called => EdgeEventSeen

\* None was returned at the limit max_samples after samples of both values,
\* none of them an edge event.
C17_Witness ==
    /\ ll_pc = "returned" /\ ll_ret = "None" /\ ~ll_called
    /\ sc = max_samples /\ max_samples > 3
    /\ \E i \in 1..Len(ll_samples) : ll_samples[i] # ll_samples[1]
    /\ ~EdgeEventSeen

\* After the edge event: the countdown of remaining samples has reached zero,
\* or the buffer holds buf_size samples.
FillEvent ==
    /\ ll_state = S_FINISH_BUF
    /\ buf_remaining <= 0 \/ Len(buf) >= buf_size

FirstEdge ==
    CHOOSE n \in 1..Len(ll_samples) :
        EdgeEventAt(n) /\ \A m \in 1..(n - 1) : ~EdgeEventAt(m)

\* The number of samples the buffer held at the edge event, that sample
\* included, and the countdown that was set there.
HeldAtEdge == IF FirstEdge < buf_size THEN FirstEdge ELSE buf_size

CountdownAtEdge ==
    IF HeldAtEdge < buf_size \div 2 THEN buf_size - HeldAtEdge
    ELSE buf_size \div 2

\* A sample was pulled after the edge event, with it the countdown is at
\* zero or below and the buffer holds buf_size samples.
FillingDone ==
    /\ EdgeEventSeen
    /\ Len(ll_samples) - FirstEdge >= 1
    /\ Len(ll_samples) - FirstEdge >= CountdownAtEdge
    /\ Len(ll_samples) >= buf_size

PastFilter == r_pc \in {"filtered", "returned", "raised"}

\* The peak detector finds no peak in hps, or the span picked from the first
\* peak is x_hps[0] = 0.
NoPeakOrZeroSpan ==
    \/ find_hist_peaks(hps) = <<>>
    \/ peak_ix(hps, find_hist_peaks(hps)[1]) = 0

\* C18: find_symbol_rate returns 0 when find_hist_peaks finds no peak in the
\* harmonic product spectrum or the span of the peak picked is exactly zero,
\* and raises ValueError when no span between edges is left after keeping
\* only the spans below max_span_limit.
C18_ZeroOrValueError ==
    /\ (r_pc = "returned" /\ NoPeakOrZeroSpan) => r_ret = 0
    /\ (PastFilter /\ spans = <<>>) => (r_pc = "raised" /\ r_exc = "ValueError")

=============================================================================
